---- MODULE Spec2Model ----
(***************************************************************************)
(* govbr-auth: the AuthService / GovBRAuth client of the GOV.BR OAuth 2.0  *)
(* and OpenID Connect provider.                                            *)
(*                                                                         *)
(* A JavaScript string is modelled as a sequence of one-character strings, *)
(* so that encodings (hex, base64, form-urlencoding) are computed          *)
(* character by character as the platform computes them.  The model's      *)
(* strings are ASCII; a byte is an integer in 0..255.                      *)
(***************************************************************************)
EXTENDS Integers, Sequences, FiniteSets, TLC

(* ----------------------------------------------------------------------- *)
(* Bounds of the model                                                     *)
(* ----------------------------------------------------------------------- *)

\* number of distinct outcomes of the random-byte source
NumSeeds == 2
\* how many times the caller changes the configuration object it passed in
MaxMutations == 1
\* how many network operations are invoked on one service
MaxCalls == 2
\* how many network operations are invoked in a session that also builds
\* URLs
MaxSessionCalls == 1

(* ----------------------------------------------------------------------- *)
(* Characters, bytes and the platform's encodings                          *)
(* ----------------------------------------------------------------------- *)

\* the printable ASCII characters, in code order from 32 (space) to 126 (~);
\* code 96, the grave accent, is written GRAVE (no string of the model holds it)
ASCII ==
    <<" ","!","\"","#","$","%","&","'","(",")","*","+",",","-",".","/","0","1","2","3","4","5",
      "6","7","8","9",":",";","<","=",">","?","@","A","B","C","D","E","F","G","H","I","J","K",
      "L","M","N","O","P","Q","R","S","T","U","V","W","X","Y","Z","[","\\","]","^","_","GRAVE","a",
      "b","c","d","e","f","g","h","i","j","k","l","m","n","o","p","q","r","s","t","u","v","w",
      "x","y","z","{","|","}","~">>

\* the base64 alphabets of Buffer.toString('base64') and 'base64url'
BASE64_CHARS ==
    <<"A","B","C","D","E","F","G","H","I","J","K","L","M","N","O","P","Q","R","S","T","U","V",
      "W","X","Y","Z","a","b","c","d","e","f","g","h","i","j","k","l","m","n","o","p","q","r",
      "s","t","u","v","w","x","y","z","0","1","2","3","4","5","6","7","8","9","+","/">>

BASE64URL_CHARS ==
    <<"A","B","C","D","E","F","G","H","I","J","K","L","M","N","O","P","Q","R","S","T","U","V",
      "W","X","Y","Z","a","b","c","d","e","f","g","h","i","j","k","l","m","n","o","p","q","r",
      "s","t","u","v","w","x","y","z","0","1","2","3","4","5","6","7","8","9","-","_">>

HEX_LOWER ==
    <<"0","1","2","3","4","5","6","7","8","9","a","b","c","d","e","f">>

HEX_UPPER ==
    <<"0","1","2","3","4","5","6","7","8","9","A","B","C","D","E","F">>

\* the character code of each ASCII character
CharCodes ==
    [ c \in { ASCII[i] : i \in 1..Len(ASCII) } |->
        31 + (CHOOSE i \in 1..Len(ASCII) : ASCII[i] = c) ]

\* String.charCodeAt
Code(c) == CharCodes[c]

\* Buffer.from(str): the UTF-8 bytes of an ASCII string
BufferFrom(str) == [i \in 1..Len(str) |-> Code(str[i])]

\* the value JavaScript gives an absent field or argument
Undefined == <<"undefined">>

\* JavaScript truthiness of an optional string: undefined and '' are falsy
Truthy(v) == v # Undefined /\ v # <<>>

RECURSIVE Base64Enc(_, _, _)
\* base64 of a byte sequence over an alphabet, with pad as the padding
Base64Enc(bytes, chars, pad) ==
    IF Len(bytes) = 0 THEN <<>>
    ELSE IF Len(bytes) = 1 THEN
        << chars[(bytes[1] \div 4) + 1],
           chars[(bytes[1] % 4) * 16 + 1] >> \o pad \o pad
    ELSE IF Len(bytes) = 2 THEN
        << chars[(bytes[1] \div 4) + 1],
           chars[(bytes[1] % 4) * 16 + (bytes[2] \div 16) + 1],
           chars[(bytes[2] % 16) * 4 + 1] >> \o pad
    ELSE
        << chars[(bytes[1] \div 4) + 1],
           chars[(bytes[1] % 4) * 16 + (bytes[2] \div 16) + 1],
           chars[(bytes[2] % 16) * 4 + (bytes[3] \div 64) + 1],
           chars[(bytes[3] % 64) + 1] >>
          \o Base64Enc(SubSeq(bytes, 4, Len(bytes)), chars, pad)

\* Buffer.toString('base64'), Hash.digest('base64')
ToBase64(bytes) == Base64Enc(bytes, BASE64_CHARS, <<"=">>)

\* Buffer.toString('base64url'): URL-safe alphabet, no padding
ToBase64Url(bytes) == Base64Enc(bytes, BASE64URL_CHARS, <<>>)

RECURSIVE ToHex(_)
\* Buffer.toString('hex'): two lower-case hex digits per byte
ToHex(bytes) ==
    IF bytes = <<>> THEN <<>>
    ELSE << HEX_LOWER[(Head(bytes) \div 16) + 1],
            HEX_LOWER[(Head(bytes) % 16) + 1] >> \o ToHex(Tail(bytes))

RECURSIVE ReplaceAll(_, _, _)
\* String.replace(/c/g, r): every occurrence of character c replaced by r
ReplaceAll(s, c, r) ==
    IF s = <<>> THEN <<>>
    ELSE (IF Head(s) = c THEN r ELSE <<Head(s)>>) \o ReplaceAll(Tail(s), c, r)

\* crypto.randomBytes(n): the outcomes the model draws from
randomBytes(n) ==
    { [i \in 1..n |-> (seed * i + seed) % 256] :
        seed \in { 37 * k + 14 : k \in 1..NumSeeds } }

\* createHash('sha256').update(msg).digest(): the digest bytes of the code
\* verifiers the random source of the model can produce (SHA-256 values)
Sha256(msg) ==
  CASE
  msg =
    <<"Z","p","n","M","_","z","J","l","m","M","v","-","M","W","S","X","y","v","0","w","Y","5",
      "b","J","_","C","9","i","l","c","j","7","L","m","G","U","x","_","o","t","Y","J","M">> ->
    <<75,21,237,19,231,243,85,252,254,161,220,206,197,136,243,221,59,102,166,11,241,155,151,140,
      154,204,233,116,218,47,216,216>>
  []
  msg =
    <<"s","A","h","g","u","B","B","o","w","B","h","w","y","C","B","4","0","C","i","A","2","D",
      "C","I","4","D","i","Q","6","E","C","Y","8","E","i","g","-","F","C","o","A","F","g">> ->
    <<1,66,237,203,245,242,215,39,38,177,86,125,252,64,131,146,42,192,77,114,105,168,25,233,164,
      80,41,249,26,154,86,70>>
  []
  msg =
    <<"-","n","f","0","c","e","5","r","6","G","X","i","X","9","x","Z","1","l","P","Q","T","c",
      "p","H","x","E","G","-","O","7","g","1","s","i","-","s","K","a","Y","j","o","B","0">> ->
    <<74,172,68,81,210,176,134,191,188,202,185,249,194,60,167,137,254,173,31,112,212,254,18,92,
      65,123,3,127,3,248,221,238>>
  []
  msg =
    <<"R","O","a","I","K","s","x","u","E","L","J","U","9","p","g","6","3","H","4","g","w","m",
      "Q","G","q","E","r","s","j","j","D","S","d","B","a","4","W","v","y","e","Q","O","I">> ->
    <<14,141,34,53,15,211,95,73,230,10,240,116,92,22,159,131,121,51,47,234,101,157,69,20,122,86,
      157,227,89,249,254,181>>

(* ----------------------------------------------------------------------- *)
(* src/utils                                                               *)
(* ----------------------------------------------------------------------- *)

\* the possible results of generateNonce()
generateNonce == { ToHex(b) : b \in randomBytes(16) }

\* the possible results of generateState()
generateState == { ToHex(b) : b \in randomBytes(16) }

\* the possible results of generateCodeVerifier()
generateCodeVerifier == { ToBase64Url(b) : b \in randomBytes(32) }

generateCodeChallenge(verifier) ==
    ReplaceAll(ReplaceAll(ReplaceAll(ToBase64(Sha256(verifier)),
        "+", <<"-">>), "/", <<"_">>), "=", <<>>)

base64URLEncode(str) ==
    ReplaceAll(ReplaceAll(ReplaceAll(ToBase64(BufferFrom(str)),
        "+", <<"-">>), "/", <<"_">>), "=", <<>>)

(* ----------------------------------------------------------------------- *)
(* src/config                                                              *)
(* ----------------------------------------------------------------------- *)

ENDPOINTS ==
  [ staging |->
      [ authorize |->
          <<"h","t","t","p","s",":","/","/","s","s","o",".","s","t","a","g","i","n","g",".","a",
            "c","e","s","s","o",".","g","o","v",".","b","r","/","a","u","t","h","o","r","i","z",
            "e">>,
        token |->
          <<"h","t","t","p","s",":","/","/","s","s","o",".","s","t","a","g","i","n","g",".","a",
            "c","e","s","s","o",".","g","o","v",".","b","r","/","t","o","k","e","n">>,
        userinfo |->
          <<"h","t","t","p","s",":","/","/","s","s","o",".","s","t","a","g","i","n","g",".","a",
            "c","e","s","s","o",".","g","o","v",".","b","r","/","u","s","e","r","i","n","f","o">>,
        logout |->
          <<"h","t","t","p","s",":","/","/","s","s","o",".","s","t","a","g","i","n","g",".","a",
            "c","e","s","s","o",".","g","o","v",".","b","r","/","l","o","g","o","u","t">>,
        confiabilidades |->
          <<"h","t","t","p","s",":","/","/","a","p","i",".","s","t","a","g","i","n","g",".","a",
            "c","e","s","s","o",".","g","o","v",".","b","r","/","c","o","n","f","i","a","b","i",
            "l","i","d","a","d","e","s","/","v","3">> ],
    production |->
      [ authorize |->
          <<"h","t","t","p","s",":","/","/","s","s","o",".","a","c","e","s","s","o",".","g","o",
            "v",".","b","r","/","a","u","t","h","o","r","i","z","e">>,
        token |->
          <<"h","t","t","p","s",":","/","/","s","s","o",".","a","c","e","s","s","o",".","g","o",
            "v",".","b","r","/","t","o","k","e","n">>,
        userinfo |->
          <<"h","t","t","p","s",":","/","/","s","s","o",".","a","c","e","s","s","o",".","g","o",
            "v",".","b","r","/","u","s","e","r","i","n","f","o">>,
        logout |->
          <<"h","t","t","p","s",":","/","/","s","s","o",".","a","c","e","s","s","o",".","g","o",
            "v",".","b","r","/","l","o","g","o","u","t">>,
        confiabilidades |->
          <<"h","t","t","p","s",":","/","/","a","p","i",".","a","c","e","s","s","o",".","g","o",
            "v",".","b","r","/","c","o","n","f","i","a","b","i","l","i","d","a","d","e","s","/",
            "v","3">> ] ]

DEFAULT_SCOPES ==
  << <<"o","p","e","n","i","d">>,
     <<"e","m","a","i","l">>,
     <<"p","r","o","f","i","l","e">>,
     <<"g","o","v","b","r","_","c","o","n","f","i","a","b","i","l","i","d","a","d","e","s">> >>

(* ----------------------------------------------------------------------- *)
(* String literals of the service                                          *)
(* ----------------------------------------------------------------------- *)

Str_code == <<"c","o","d","e">>
Str_S256 == <<"S","2","5","6">>
Str_response_type == <<"r","e","s","p","o","n","s","e","_","t","y","p","e">>
Str_client_id == <<"c","l","i","e","n","t","_","i","d">>
Str_scope == <<"s","c","o","p","e">>
Str_redirect_uri == <<"r","e","d","i","r","e","c","t","_","u","r","i">>
Str_nonce == <<"n","o","n","c","e">>
Str_state == <<"s","t","a","t","e">>
Str_code_challenge == <<"c","o","d","e","_","c","h","a","l","l","e","n","g","e">>
Str_code_challenge_method == <<"c","o","d","e","_","c","h","a","l","l","e","n","g","e","_","m","e","t","h","o","d">>
Str_grant_type == <<"g","r","a","n","t","_","t","y","p","e">>
Str_authorization_code == <<"a","u","t","h","o","r","i","z","a","t","i","o","n","_","c","o","d","e">>
Str_code_verifier == <<"c","o","d","e","_","v","e","r","i","f","i","e","r">>
Str_post_logout_redirect_uri == <<"p","o","s","t","_","l","o","g","o","u","t","_","r","e","d","i","r","e","c","t","_","u","r",
  "i">>
Str_Basic == <<"B","a","s","i","c"," ">>
Str_Bearer == <<"B","e","a","r","e","r"," ">>
Str_contas == <<"/","c","o","n","t","a","s","/">>
Str_niveis == <<"/","n","i","v","e","i","s">>
Str_confiabilidades == <<"/","c","o","n","f","i","a","b","i","l","i","d","a","d","e","s">>
Str_response_type_param == <<"r","e","s","p","o","n","s","e","-","t","y","p","e">>
Str_ids == <<"i","d","s">>
Str_json == <<"a","p","p","l","i","c","a","t","i","o","n","/","j","s","o","n">>
Str_form == <<"a","p","p","l","i","c","a","t","i","o","n","/","x","-","w","w","w","-","f","o","r","m","-",
  "u","r","l","e","n","c","o","d","e","d">>
Str_missing == <<"M","i","s","s","i","n","g"," ","r","e","q","u","i","r","e","d"," ","c","o","n","f","i","g",
  "u","r","a","t","i","o","n"," ","p","a","r","a","m","e","t","e","r","s">>

Str_openid == <<"o","p","e","n","i","d">>
Str_email == <<"e","m","a","i","l">>

(* ----------------------------------------------------------------------- *)
(* URLSearchParams and Array.join                                          *)
(* ----------------------------------------------------------------------- *)

\* the application/x-www-form-urlencoded byte serializer of one character:
\* ASCII alphanumerics and * - . _ are kept, space becomes +, every other
\* byte is written %XX with upper-case hex digits
FormEncodeChar(c) ==
    LET n == Code(c) IN
    IF \/ (48 <= n /\ n <= 57) \/ (65 <= n /\ n <= 90) \/ (97 <= n /\ n <= 122)
       \/ c \in {"*", "-", ".", "_"}
    THEN <<c>>
    ELSE IF c = " " THEN <<"+">>
    ELSE <<"%", HEX_UPPER[(n \div 16) + 1], HEX_UPPER[(n % 16) + 1]>>

RECURSIVE FormEncode(_)
FormEncode(str) ==
    IF str = <<>> THEN <<>>
    ELSE FormEncodeChar(Head(str)) \o FormEncode(Tail(str))

RECURSIVE URLSearchParamsToString(_)
\* URLSearchParams.toString() of a list of <<name, value>> pairs, in
\* insertion order: name=value joined by &
URLSearchParamsToString(pairs) ==
    IF pairs = <<>> THEN <<>>
    ELSE FormEncode(Head(pairs)[1]) \o <<"=">> \o FormEncode(Head(pairs)[2])
           \o (IF Len(pairs) > 1 THEN <<"&">> ELSE <<>>)
           \o URLSearchParamsToString(Tail(pairs))

RECURSIVE Join(_, _)
\* Array.prototype.join(sep)
Join(arr, sep) ==
    IF arr = <<>> THEN <<>>
    ELSE IF Len(arr) = 1 THEN arr[1]
    ELSE arr[1] \o sep \o Join(Tail(arr), sep)

\* a ?? b in place of a || b: the empty string counts as given
OrElse_Nullish(a, b) == IF a # Undefined THEN a ELSE b

\* a || b on optional strings
OrElse(a, b) == IF Truthy(a) THEN a ELSE b

(* ----------------------------------------------------------------------- *)
(* The values the caller of the model passes in                            *)
(* ----------------------------------------------------------------------- *)

ClientIdValue == <<"a","p","p">>
ClientSecretValue == <<"p","~","?">>
RedirectUriValue == <<"h","t","t","p","s",":","/","/","a",".","b","/","c","b">>

\* a required string field as the caller may pass it: absent, empty or set
RequiredInputs(value) == {Undefined, <<>>, value}

\* the environment field: absent, or one of the two Environment tags
EnvironmentInputs == {"undefined", "production", "staging"}

\* the scopes field: absent ("undefined"), or a reference to the array the
\* caller built ("caller"); the arrays the caller may have built
ScopesRefInputs == {"undefined", "caller"}

ScopesArrayInputs == { <<>>, <<Str_openid, Str_email>> }

\* GovBRConfig objects
ConfigInputs ==
    [ clientId : RequiredInputs(ClientIdValue),
      clientSecret : RequiredInputs(ClientSecretValue),
      redirectUri : RequiredInputs(RedirectUriValue),
      environment : EnvironmentInputs,
      scopes : ScopesRefInputs ]

\* the value the caller writes when it reassigns a field after construction
ReassignedValue ==
    [ clientId |-> <<"x">>, clientSecret |-> <<"y">>, redirectUri |-> <<"z">>,
      environment |-> "staging", scopes |-> "undefined" ]

\* the scope the caller pushes on its own array after construction
PushedScope == <<"c","p","f">>

\* the caller's values for the overridable AuthorizeParams fields
ResponseTypeValue == <<"c","o","d","e"," ","i","d","_","t","o","k","e","n">>
NonceValue == <<"n","1">>
StateValue == <<"s","1">>
CodeChallengeMethodValue == <<"p","l","a","i","n">>

\* the code verifier a caller that sets codeChallenge generated for itself
\* (a result of generateCodeVerifier())
CallerVerifierInputs ==
    { <<"R","O","a","I","K","s","x","u","E","L","J","U","9","p","g","6","3","H","4","g","w",
         "m","Q","G","q","E","r","s","j","j","D","S","d","B","a","4","W","v","y","e","Q",
         "O","I">> }

ParamFields ==
    {"responseType", "nonce", "state", "codeChallenge", "codeChallengeMethod"}

\* AuthorizeParams objects: each field absent, empty or set; a codeChallenge
\* the caller sets is the challenge of a verifier the caller generated
AuthorizeParamsInputs(challenges) ==
    [ responseType : RequiredInputs(ResponseTypeValue),
      nonce : RequiredInputs(NonceValue),
      state : RequiredInputs(StateValue),
      codeChallenge : {Undefined, <<>>} \cup challenges,
      codeChallengeMethod : RequiredInputs(CodeChallengeMethodValue) ]

\* generateAuthorizationUrl() with no argument: params = {}
NoParams ==
    [ responseType |-> Undefined, nonce |-> Undefined, state |-> Undefined,
      codeChallenge |-> Undefined, codeChallengeMethod |-> Undefined ]

(* ----------------------------------------------------------------------- *)
(* State                                                                   *)
(* ----------------------------------------------------------------------- *)

VARIABLES
    callerConfig,    \* the GovBRConfig object the caller passed to the constructor
    heap,            \* the arrays alive: caller (built by the caller), own (built by the constructor)
    svc,             \* "none", "failed" (the constructor threw) or "ready"
    thrown,          \* the error the last constructor call threw, if any
    config,          \* this.config
    endpoints,       \* this.endpoints
    scopesAtConstruction, \* the contents of this.config.scopes when the constructor returned
    mutations,       \* how often the caller changed callerConfig or its array after construction
    ret,             \* the call of a URL-building operation that is returning, and what it returns
    calls,           \* the invocations of network operations, in order of invocation
    sent             \* the HTTP requests handed to the client, in order

vars ==
    << callerConfig, heap, svc, thrown, config, endpoints, scopesAtConstruction,
       mutations, ret, calls, sent >>

serviceVars == << svc, thrown, config, endpoints, scopesAtConstruction >>
callerVars == << callerConfig, heap, mutations >>
netVars == << calls, sent >>

NoConfig ==
    [ clientId |-> Undefined, clientSecret |-> Undefined, redirectUri |-> Undefined,
      environment |-> "undefined", scopes |-> "undefined" ]

NoEndpoints ==
    [ authorize |-> Undefined, token |-> Undefined, userinfo |-> Undefined,
      logout |-> Undefined, confiabilidades |-> Undefined ]

NoRet ==
    [ op |-> "none", params |-> NoParams, arg |-> Undefined, value |-> Undefined,
      codeVerifier |-> Undefined, nonce |-> Undefined, state |-> Undefined,
      callerVerifier |-> Undefined ]

Init ==
    /\ callerConfig = NoConfig
    /\ heap = [caller |-> <<>>, own |-> <<>>]
    /\ svc = "none"
    /\ thrown = <<>>
    /\ config = NoConfig
    /\ endpoints = NoEndpoints
    /\ scopesAtConstruction = <<>>
    /\ mutations = 0
    /\ ret = NoRet
    /\ calls = <<>>
    /\ sent = <<>>

(* ----------------------------------------------------------------------- *)
(* AuthService.constructor                                                 *)
(* ----------------------------------------------------------------------- *)

\* the check without its redirectUri operand
MissingRequired_NoRedirectUri(cfg) ==
    ~Truthy(cfg.clientId) \/ ~Truthy(cfg.clientSecret)

\* !config.clientId || !config.clientSecret || !config.redirectUri
MissingRequired(cfg) ==
    ~Truthy(cfg.clientId) \/ ~Truthy(cfg.clientSecret) \/ ~Truthy(cfg.redirectUri)

\* { ...config, environment: config.environment || 'production',
\*   scopes: config.scopes || [...DEFAULT_SCOPES] }: a shallow copy, so a
\* scopes array the caller passed is shared with the caller
ResolveConfig(cfg) ==
    [ cfg EXCEPT
        !.environment = IF cfg.environment = "undefined" THEN "production"
                        ELSE cfg.environment,
        !.scopes = IF cfg.scopes = "undefined" THEN "own" ELSE cfg.scopes ]

\* new GovBRAuth(cfg) / new AuthService(cfg) for a cfg of the set cfgs, arr
\* being the array cfg.scopes refers to when it refers to one
ConstructFrom(cfgs) ==
    /\ svc \in {"none", "failed"}
    /\ ret.op = "none"
    /\ \E cfg \in cfgs, arr \in ScopesArrayInputs :
        /\ cfg.scopes = "undefined" => arr = <<>>
        /\ callerConfig' = cfg
        /\ IF MissingRequired(cfg)
           THEN /\ svc' = "failed"
                /\ thrown' = << [name |-> "Error", message |-> Str_missing] >>
                /\ heap' = [caller |-> arr, own |-> <<>>]
                /\ UNCHANGED << config, endpoints, scopesAtConstruction >>
           ELSE /\ svc' = "ready"
                /\ thrown' = <<>>
                /\ config' = ResolveConfig(cfg)
                /\ heap' = [ caller |-> arr,
                             own |-> IF cfg.scopes = "undefined"
                                     THEN DEFAULT_SCOPES ELSE <<>> ]
                /\ endpoints' = ENDPOINTS[ResolveConfig(cfg).environment]
                /\ scopesAtConstruction' =
                     IF cfg.scopes = "undefined" THEN DEFAULT_SCOPES ELSE arr
    /\ UNCHANGED << mutations, ret, netVars >>

\* the constructor called with any configuration object
Construct == ConstructFrom(ConfigInputs)

(* ----------------------------------------------------------------------- *)
(* The caller, after construction, changing the object it passed in        *)
(* ----------------------------------------------------------------------- *)

\* cfg.<field> = <value>
CallerAssignField ==
    /\ svc = "ready"
    /\ ret.op = "none"
    /\ mutations < MaxMutations
    /\ \E f \in DOMAIN callerConfig :
        /\ callerConfig[f] # ReassignedValue[f]
        /\ callerConfig' = [callerConfig EXCEPT ![f] = ReassignedValue[f]]
    /\ mutations' = mutations + 1
    /\ UNCHANGED << heap, serviceVars, ret, netVars >>

\* cfg.scopes.push(scope)
CallerPushScope ==
    /\ svc = "ready"
    /\ ret.op = "none"
    /\ mutations < MaxMutations
    /\ callerConfig.scopes = "caller"
    /\ heap' = [heap EXCEPT !.caller = Append(@, PushedScope)]
    /\ mutations' = mutations + 1
    /\ UNCHANGED << callerConfig, serviceVars, ret, netVars >>

\* cfg.scopes.pop()
CallerPopScope ==
    /\ svc = "ready"
    /\ ret.op = "none"
    /\ mutations < MaxMutations
    /\ callerConfig.scopes = "caller"
    /\ heap.caller # <<>>
    /\ heap' = [heap EXCEPT !.caller = SubSeq(@, 1, Len(@) - 1)]
    /\ mutations' = mutations + 1
    /\ UNCHANGED << callerConfig, serviceVars, ret, netVars >>

(* ----------------------------------------------------------------------- *)
(* AuthService.generateAuthorizationUrl, generateLogoutUrl                 *)
(* ----------------------------------------------------------------------- *)

\* when an operation of the service can be called: the service was
\* constructed and no other call is running (the URL-building operations are
\* synchronous, and none of the six tests anything else)
Callable == svc = "ready" /\ ret.op = "none"

\* the entries with every given parameter kept, the empty string included
AuthorizationParams_EmptyKept(params, cfg, scopes, nonce, state, codeChallenge) ==
    << <<Str_response_type, OrElse_Nullish(params.responseType, Str_code)>>,
       <<Str_client_id, cfg.clientId>>,
       <<Str_scope, Join(scopes, <<" ">>)>>,
       <<Str_redirect_uri, cfg.redirectUri>>,
       <<Str_nonce, OrElse_Nullish(params.nonce, nonce)>>,
       <<Str_state, OrElse_Nullish(params.state, state)>>,
       <<Str_code_challenge, OrElse_Nullish(params.codeChallenge, codeChallenge)>>,
       <<Str_code_challenge_method,
         OrElse_Nullish(params.codeChallengeMethod, Str_S256)>> >>

\* the entries with the client secret among them
AuthorizationParams_WithSecret(params, cfg, scopes, nonce, state, codeChallenge) ==
    << <<Str_response_type, OrElse(params.responseType, Str_code)>>,
       <<Str_client_id, cfg.clientId>>,
       <<Str_scope, Join(scopes, <<" ">>)>>,
       <<Str_redirect_uri, cfg.redirectUri>>,
       <<Str_nonce, OrElse(params.nonce, nonce)>>,
       <<Str_state, OrElse(params.state, state)>>,
       <<Str_code_challenge, OrElse(params.codeChallenge, codeChallenge)>>,
       <<Str_code_challenge_method, OrElse(params.codeChallengeMethod, Str_S256)>>,
       << <<"c","l","i","e","n","t","_","s","e","c","r","e","t">>, cfg.clientSecret >> >>

\* the entries with the scopes joined by a comma
AuthorizationParams_CommaScopes(params, cfg, scopes, nonce, state, codeChallenge) ==
    << <<Str_response_type, OrElse(params.responseType, Str_code)>>,
       <<Str_client_id, cfg.clientId>>,
       <<Str_scope, Join(scopes, <<",">>)>>,
       <<Str_redirect_uri, cfg.redirectUri>>,
       <<Str_nonce, OrElse(params.nonce, nonce)>>,
       <<Str_state, OrElse(params.state, state)>>,
       <<Str_code_challenge, OrElse(params.codeChallenge, codeChallenge)>>,
       <<Str_code_challenge_method, OrElse(params.codeChallengeMethod, Str_S256)>> >>

\* the object given to new URLSearchParams in generateAuthorizationUrl, as
\* the list of its entries; scopes is the array this.config.scopes refers to
AuthorizationParams(params, cfg, scopes, nonce, state, codeChallenge) ==
    << <<Str_response_type, OrElse(params.responseType, Str_code)>>,
       <<Str_client_id, cfg.clientId>>,
       <<Str_scope, Join(scopes, <<" ">>)>>,
       <<Str_redirect_uri, cfg.redirectUri>>,
       <<Str_nonce, OrElse(params.nonce, nonce)>>,
       <<Str_state, OrElse(params.state, state)>>,
       <<Str_code_challenge, OrElse(params.codeChallenge, codeChallenge)>>,
       <<Str_code_challenge_method, OrElse(params.codeChallengeMethod, Str_S256)>> >>

\* what generateAuthorizationUrl returns: only the URL
AuthorizationUrl(params, cfg, eps, scopes, nonce, state, codeChallenge) ==
    eps.authorize \o <<"?">> \o
      URLSearchParamsToString(
        AuthorizationParams(params, cfg, scopes, nonce, state, codeChallenge))

\* url = auth.generateAuthorizationUrl(params).  The caller that sets
\* params.codeChallenge derives it from a verifier of its own, which it keeps
\* (ret.callerVerifier); generateNonce() and generateState() run only when
\* the parameter is falsy
GenerateAuthorizationUrlFrom(inputs) ==
    /\ Callable
    /\ \E params \in inputs :
       \E own \in {Undefined} \cup CallerVerifierInputs :
       \E codeVerifier \in generateCodeVerifier :
       \E nonce \in (IF Truthy(params.nonce) THEN {Undefined} ELSE generateNonce) :
       \E state \in (IF Truthy(params.state) THEN {Undefined} ELSE generateState) :
        /\ params \in AuthorizeParamsInputs(
                         IF own = Undefined THEN {} ELSE {generateCodeChallenge(own)})
        /\ own # Undefined <=> Truthy(params.codeChallenge)
        /\ ret' = [ op |-> "generateAuthorizationUrl",
                    params |-> params,
                    arg |-> Undefined,
                    value |-> AuthorizationUrl(params, config, endpoints,
                                 heap[config.scopes], nonce, state,
                                 generateCodeChallenge(codeVerifier)),
                    codeVerifier |-> codeVerifier,
                    nonce |-> nonce,
                    state |-> state,
                    callerVerifier |-> own ]
    /\ UNCHANGED << serviceVars, callerVars, netVars >>

\* generateAuthorizationUrl called with any params object
GenerateAuthorizationUrl ==
    GenerateAuthorizationUrlFrom(
      AuthorizeParamsInputs({generateCodeChallenge(v) : v \in CallerVerifierInputs}))

\* the caller's arguments of generateLogoutUrl
LogoutUriInputs ==
    { <<"h","t","t","p","s",":","/","/","a","p","p",".","t","e","s","t","/",
        "d","o","n","e">>,
      <<"/","b","y","e"," ","1">> }

\* the logout URL with the argument appended as it is
LogoutUrl_Raw(eps, postLogoutRedirectUri) ==
    eps.logout \o <<"?">> \o Str_post_logout_redirect_uri \o <<"=">>
      \o postLogoutRedirectUri

LogoutUrl(eps, postLogoutRedirectUri) ==
    eps.logout \o <<"?">> \o
      URLSearchParamsToString(
        << <<Str_post_logout_redirect_uri, postLogoutRedirectUri>> >>)

\* url = auth.generateLogoutUrl(postLogoutRedirectUri)
GenerateLogoutUrl ==
    /\ Callable
    /\ \E uri \in LogoutUriInputs :
        ret' = [ NoRet EXCEPT !.op = "generateLogoutUrl", !.arg = uri,
                              !.value = LogoutUrl(endpoints, uri) ]
    /\ UNCHANGED << serviceVars, callerVars, netVars >>

\* the URL-building call is over: the caller has taken the returned string
Return ==
    /\ ret.op # "none"
    /\ ret' = NoRet
    /\ UNCHANGED << serviceVars, callerVars, netVars >>

NextUrl ==
    \/ Construct
    \/ GenerateAuthorizationUrl
    \/ GenerateLogoutUrl
    \/ Return

\* the service used for its URL-building operations
SpecUrl == Init /\ [][NextUrl]_vars

NextCaller ==
    \/ NextUrl
    \/ CallerAssignField
    \/ CallerPushScope
    \/ CallerPopScope

\* the same, with a caller that changes the configuration object it passed
SpecCaller == Init /\ [][NextCaller]_vars

(* ----------------------------------------------------------------------- *)
(* GovBRAuthError and the response interceptor                             *)
(* ----------------------------------------------------------------------- *)

\* new GovBRAuthError(message, code, statusCode, originalError); an optional
\* value is a sequence of length 0 (absent) or 1
GovBRAuthError(message, code, statusCode, originalError) ==
    [ name |-> "GovBRAuthError", message |-> message, code |-> code,
      statusCode |-> statusCode, originalError |-> originalError ]

\* axios.isAxiosError(error)
IsAxiosError(error) == error.isAxiosError

\* error.response?.status
ResponseStatus(error) ==
    IF error.response = <<>> THEN <<>> ELSE <<error.response[1].status>>

\* the interceptor's handler of a response: (response) => response
OnFulfilled(response) == response

\* the handler taking the status from the error itself, not its response
OnRejected_NoStatus(error) ==
    IF IsAxiosError(error)
    THEN GovBRAuthError(error.message, "API_ERROR", <<>>, error)
    ELSE error

\* the handler rethrowing every error as it came
OnRejected_Rethrow(error) == error

\* the handler wrapping every error, an AxiosError or not
OnRejected_WrapAll(error) ==
    GovBRAuthError(error.message, "API_ERROR", ResponseStatus(error), error)

\* the interceptor's handler of an error: what it throws
OnRejected(error) ==
    IF IsAxiosError(error)
    THEN GovBRAuthError(error.message, "API_ERROR", ResponseStatus(error), error)
    ELSE error

(* ----------------------------------------------------------------------- *)
(* The HTTP client (axios) as the service uses it                          *)
(* ----------------------------------------------------------------------- *)

\* the errors the client raises for the request of invocation i: an
\* AxiosError with the response (a status outside 2xx), an AxiosError
\* without response (no connection, the timeout), and an error that is no
\* AxiosError
BadResponseError(i, response) ==
    [ name |-> "AxiosError", isAxiosError |-> TRUE, code |-> "ERR_BAD_RESPONSE",
      message |-> <<"Request failed with status code", ToString(response.status)>>,
      response |-> <<response>>, call |-> i ]

NoResponseError(i, code) ==
    [ name |-> "AxiosError", isAxiosError |-> TRUE, code |-> code,
      message |-> IF code = "ECONNABORTED" THEN <<"timeout of 10000ms exceeded">>
                  ELSE <<"Network Error">>,
      response |-> <<>>, call |-> i ]

OtherError(i) ==
    [ name |-> "TypeError", isAxiosError |-> FALSE, code |-> "ERR_INVALID_CHAR",
      message |-> <<"Invalid character in header content">>,
      response |-> <<>>, call |-> i ]

\* validateStatus of the client (the default): a 2xx status resolves
ValidateStatus(status) == 200 <= status /\ status < 300

\* what the provider may answer
StatusInputs == {200, 401, 500}

\* the body of a 2xx answer, and the body of any other answer
ResponseBodyInputs == { <<"prata", "ouro">>, <<"ouro", "prata">> }

ErrorBodyInputs == { <<"error">> }

NoResponseCodes == {"ERR_NETWORK", "ECONNABORTED"}

(* ----------------------------------------------------------------------- *)
(* AuthService.getTokens, getUserInfo, getConfiabilidadeNiveis/Selos       *)
(* ----------------------------------------------------------------------- *)

\* the caller's arguments
CodeInputs == { <<"4","/","P","7">> }
CodeVerifierInputs == CallerVerifierInputs
AccessTokenInputs == { <<"t","1">> }
CpfInputs == { <<"1","/","x">> }

\* the token request with the credential joined without its colon
TokenRequest_NoColon(cfg, eps, code, codeVerifier) ==
    [ method |-> "POST",
      url |-> eps.token,
      data |-> URLSearchParamsToString(
                 << <<Str_grant_type, Str_authorization_code>>,
                    <<Str_code, code>>,
                    <<Str_redirect_uri, cfg.redirectUri>>,
                    <<Str_code_verifier, codeVerifier>> >>),
      params |-> <<>>,
      headers |-> [ ContentType |-> Str_form,
                    Authorization |-> Str_Basic \o
                      base64URLEncode(cfg.clientId \o cfg.clientSecret) ] ]

\* the token request presenting another redirect URI than the configured one
TokenRequest_OtherRedirect(cfg, eps, code, codeVerifier) ==
    [ method |-> "POST",
      url |-> eps.token,
      data |-> URLSearchParamsToString(
                 << <<Str_grant_type, Str_authorization_code>>,
                    <<Str_code, code>>,
                    <<Str_redirect_uri, eps.logout>>,
                    <<Str_code_verifier, codeVerifier>> >>),
      params |-> <<>>,
      headers |-> [ ContentType |-> Str_form,
                    Authorization |-> Str_Basic \o
                      base64URLEncode(cfg.clientId \o <<":">> \o cfg.clientSecret) ] ]

\* this.client.post(this.endpoints.token, new URLSearchParams({...}), {headers})
TokenRequest(cfg, eps, code, codeVerifier) ==
    [ method |-> "POST",
      url |-> eps.token,
      data |-> URLSearchParamsToString(
                 << <<Str_grant_type, Str_authorization_code>>,
                    <<Str_code, code>>,
                    <<Str_redirect_uri, cfg.redirectUri>>,
                    <<Str_code_verifier, codeVerifier>> >>),
      params |-> <<>>,
      headers |-> [ ContentType |-> Str_form,
                    Authorization |-> Str_Basic \o
                      base64URLEncode(cfg.clientId \o <<":">> \o cfg.clientSecret) ] ]

\* the userinfo request sent to the production table whatever the environment
UserInfoRequest_Production(eps, accessToken) ==
    [ method |-> "GET",
      url |-> ENDPOINTS.production.userinfo,
      data |-> <<>>,
      params |-> <<>>,
      headers |-> [ ContentType |-> Str_json,
                    Authorization |-> Str_Bearer \o accessToken ] ]

\* this.client.get(this.endpoints.userinfo, {headers})
UserInfoRequest(eps, accessToken) ==
    [ method |-> "GET",
      url |-> eps.userinfo,
      data |-> <<>>,
      params |-> <<>>,
      headers |-> [ ContentType |-> Str_json,
                    Authorization |-> Str_Bearer \o accessToken ] ]

\* the trust-levels request with the cpf encoded as a path segment
NiveisRequest_EncodedCpf(eps, accessToken, cpf) ==
    [ method |-> "GET",
      url |-> eps.confiabilidades \o Str_contas \o FormEncode(cpf) \o Str_niveis,
      data |-> <<>>,
      params |-> << <<Str_response_type_param, Str_ids>> >>,
      headers |-> [ ContentType |-> Str_json,
                    Authorization |-> Str_Bearer \o accessToken ] ]

\* this.client.get(`${this.endpoints.confiabilidades}/contas/${cpf}/niveis`, ...)
NiveisRequest(eps, accessToken, cpf) ==
    [ method |-> "GET",
      url |-> eps.confiabilidades \o Str_contas \o cpf \o Str_niveis,
      data |-> <<>>,
      params |-> << <<Str_response_type_param, Str_ids>> >>,
      headers |-> [ ContentType |-> Str_json,
                    Authorization |-> Str_Bearer \o accessToken ] ]

\* this.client.get(`${this.endpoints.confiabilidades}/contas/${cpf}/confiabilidades`, ...)
SelosRequest(eps, accessToken, cpf) ==
    [ method |-> "GET",
      url |-> eps.confiabilidades \o Str_contas \o cpf \o Str_confiabilidades,
      data |-> <<>>,
      params |-> << <<Str_response_type_param, Str_ids>> >>,
      headers |-> [ ContentType |-> Str_json,
                    Authorization |-> Str_Bearer \o accessToken ] ]

\* an invocation that sends its request a second time
Requests_Twice(request) == <<request, request>>

\* the requests an invocation hands to the client: its one request
Requests(request) == <<request>>

\* a service with a protocol: only getTokens can be invoked before a token
\* exchange has resolved
Invocable_AfterLogin(op) ==
    /\ Callable
    /\ Len(calls) < MaxCalls
    /\ op # "getTokens" =>
         \E j \in 1..Len(calls) :
             calls[j].op = "getTokens" /\ calls[j].state = "fulfilled"

\* when a network operation can be invoked: the operations test nothing
\* before they build their request (the model stops at MaxCalls invocations)
Invocable(op) == Callable /\ Len(calls) < MaxCalls

\* an invocation of a network operation: the request goes to the client and
\* the returned promise is pending
Invoke(op, args, request) ==
    /\ Invocable(op)
    /\ calls' = Append(calls, [ op |-> op, args |-> args, state |-> "pending",
                                result |-> <<>>, response |-> <<>>,
                                error |-> <<>> ])
    /\ sent' = sent \o [ k \in 1..Len(Requests(request)) |->
                           [ call |-> Len(calls) + 1,
                             request |-> Requests(request)[k] ] ]
    /\ UNCHANGED << serviceVars, callerVars, ret >>

GetTokens ==
    \E code \in CodeInputs, codeVerifier \in CodeVerifierInputs :
        Invoke("getTokens", <<code, codeVerifier>>,
               TokenRequest(config, endpoints, code, codeVerifier))

GetUserInfo ==
    \E accessToken \in AccessTokenInputs :
        Invoke("getUserInfo", <<accessToken>>,
               UserInfoRequest(endpoints, accessToken))

GetConfiabilidadeNiveis ==
    \E accessToken \in AccessTokenInputs, cpf \in CpfInputs :
        Invoke("getConfiabilidadeNiveis", <<accessToken, cpf>>,
               NiveisRequest(endpoints, accessToken, cpf))

GetConfiabilidadeSelos ==
    \E accessToken \in AccessTokenInputs, cpf \in CpfInputs :
        Invoke("getConfiabilidadeSelos", <<accessToken, cpf>>,
               SelosRequest(endpoints, accessToken, cpf))

\* a 2xx response that is recorded while the promise stays pending
Resolve_Pending(i, response) ==
    calls' = [calls EXCEPT ![i].response = <<response>>]

\* the promise of invocation i settles: return response.data after the await,
\* or the await throws what the interceptor threw
Resolve(i, response) ==
    calls' = [calls EXCEPT ![i].state = "fulfilled",
                           ![i].result = <<OnFulfilled(response).data>>,
                           ![i].response = <<response>>]

\* a rejection that reaches every invocation in flight
Reject_All(i, response, error) ==
    calls' = [ j \in 1..Len(calls) |->
                 IF calls[j].state = "pending"
                 THEN [ calls[j] EXCEPT !.state = "rejected",
                                        !.result = <<OnRejected(error)>>,
                                        !.response = response,
                                        !.error = <<error>> ]
                 ELSE calls[j] ]

Reject(i, response, error) ==
    calls' = [calls EXCEPT ![i].state = "rejected",
                           ![i].result = <<OnRejected(error)>>,
                           ![i].response = response,
                           ![i].error = <<error>>]

\* the provider answers the request of invocation i
HttpResponse ==
    /\ \E i \in 1..Len(calls), status \in StatusInputs :
       \E body \in (IF ValidateStatus(status) THEN ResponseBodyInputs
                     ELSE ErrorBodyInputs) :
        /\ calls[i].state = "pending"
        /\ LET response == [status |-> status, data |-> body] IN
           IF ValidateStatus(status)
           THEN Resolve(i, response)
           ELSE Reject(i, <<response>>, BadResponseError(i, response))
    /\ UNCHANGED << serviceVars, callerVars, ret, sent >>

\* the request of invocation i ends without a response: no connection, or
\* the client's timeout
HttpNoResponse ==
    /\ \E i \in 1..Len(calls), code \in NoResponseCodes :
        /\ calls[i].state = "pending"
        /\ Reject(i, <<>>, NoResponseError(i, code))
    /\ UNCHANGED << serviceVars, callerVars, ret, sent >>

\* the request of invocation i ends with an error that is no AxiosError
HttpOtherError ==
    /\ \E i \in 1..Len(calls) :
        /\ calls[i].state = "pending"
        /\ Reject(i, <<>>, OtherError(i))
    /\ UNCHANGED << serviceVars, callerVars, ret, sent >>

NextNet ==
    \/ Construct
    \/ GetTokens
    \/ GetUserInfo
    \/ GetConfiabilidadeNiveis
    \/ GetConfiabilidadeSelos
    \/ HttpResponse
    \/ HttpNoResponse
    \/ HttpOtherError

\* the service used for its network operations
SpecNet == Init /\ [][NextNet]_vars

\* a session of one application: its configuration objects differ in the
\* clientId (absent, empty or set) and in the environment, and leave the
\* scopes to the default
SessionConfigInputs ==
    { cfg \in ConfigInputs :
        /\ cfg.clientSecret = ClientSecretValue
        /\ cfg.redirectUri = RedirectUriValue
        /\ cfg.scopes = "undefined" }

\* the application passes its own state to generateAuthorizationUrl and
\* leaves the other parameters to the service
SessionParamsInputs ==
    { [ NoParams EXCEPT !.state = StateValue ] }

SessionConstruct == ConstructFrom(SessionConfigInputs)

SessionGenerateAuthorizationUrl == GenerateAuthorizationUrlFrom(SessionParamsInputs)

SessionGetTokens == Len(calls) < MaxSessionCalls /\ GetTokens

SessionGetUserInfo == Len(calls) < MaxSessionCalls /\ GetUserInfo

SessionGetConfiabilidadeNiveis == Len(calls) < MaxSessionCalls /\ GetConfiabilidadeNiveis

SessionGetConfiabilidadeSelos == Len(calls) < MaxSessionCalls /\ GetConfiabilidadeSelos

NextService ==
    \/ SessionConstruct
    \/ SessionGenerateAuthorizationUrl
    \/ GenerateLogoutUrl
    \/ Return
    \/ SessionGetTokens
    \/ SessionGetUserInfo
    \/ SessionGetConfiabilidadeNiveis
    \/ SessionGetConfiabilidadeSelos
    \/ HttpResponse

\* the service used for all six operations, in any order, by an application
\* whose provider answers every request
SpecService == Init /\ [][NextService]_vars

NextNetSession ==
    \/ SessionConstruct
    \/ GetTokens
    \/ GetUserInfo
    \/ GetConfiabilidadeNiveis
    \/ GetConfiabilidadeSelos
    \/ HttpResponse
    \/ HttpNoResponse
    \/ HttpOtherError

\* the network operations as one application uses them, several in flight
SpecNetSession == Init /\ [][NextNetSession]_vars

\* the HTTP client ends every request it was handed: with a response, a
\* transport failure or, at the latest, its timeout of 10000 ms
Settle == HttpResponse \/ HttpNoResponse \/ HttpOtherError

\* the same, with a client that ends every request
SpecNetFair == SpecNetSession /\ WF_vars(Settle)

Next ==
    \/ NextCaller
    \/ NextNet

Spec == Init /\ [][Next]_vars

(* ----------------------------------------------------------------------- *)
(* Reading URLs, queries and credentials back (used by the properties)     *)
(* ----------------------------------------------------------------------- *)

RECURSIVE IndexFrom(_, _, _)
\* the first index of character c in s at or after i, or 0
IndexFrom(s, c, i) ==
    IF i > Len(s) THEN 0
    ELSE IF s[i] = c THEN i
    ELSE IndexFrom(s, c, i + 1)

\* the first index of character c in s, or 0
IndexOf(s, c) == IndexFrom(s, c, 1)

\* the part of a URL before its first ?, and the part after it
BaseOf(url) == SubSeq(url, 1, IndexOf(url, "?") - 1)
QueryOf(url) == SubSeq(url, IndexOf(url, "?") + 1, Len(url))

RECURSIVE Split(_, _)
\* s cut at every character c
Split(s, c) ==
    LET i == IndexOf(s, c) IN
    IF i = 0 THEN <<s>>
    ELSE <<SubSeq(s, 1, i - 1)>> \o Split(SubSeq(s, i + 1, Len(s)), c)

HexValue(h) == (CHOOSE i \in 1..16 : HEX_UPPER[i] = h) - 1

RECURSIVE FormDecode(_)
\* the application/x-www-form-urlencoded parser of a name or value
FormDecode(s) ==
    IF s = <<>> THEN <<>>
    ELSE IF Head(s) = "+" THEN <<" ">> \o FormDecode(Tail(s))
    ELSE IF Head(s) = "%" /\ Len(s) >= 3
    THEN <<ASCII[16 * HexValue(s[2]) + HexValue(s[3]) - 31]>>
           \o FormDecode(SubSeq(s, 4, Len(s)))
    ELSE <<Head(s)>> \o FormDecode(Tail(s))

RECURSIVE ParsePairs(_)
\* the <<name, value>> pair of each name=value part
ParsePairs(parts) ==
    IF parts = <<>> THEN <<>>
    ELSE LET part == Head(parts)
             eq == IndexOf(part, "=") IN
         << << FormDecode(SubSeq(part, 1, eq - 1)),
               FormDecode(SubSeq(part, eq + 1, Len(part))) >> >>
           \o ParsePairs(Tail(parts))

\* the <<name, value>> pairs a query string parses to
ParseQuery(query) == ParsePairs(Split(query, "&"))

NamesOf(pairs) == [k \in 1..Len(pairs) |-> pairs[k][1]]

\* the value of the pair named name
ValueOf(pairs, name) ==
    pairs[CHOOSE k \in 1..Len(pairs) : pairs[k][1] = name][2]

\* sub occurs in s as a contiguous substring
Contains(s, sub) ==
    \E i \in 1..(Len(s) - Len(sub) + 1) : SubSeq(s, i, i + Len(sub) - 1) = sub

RECURSIVE Base64Decode(_)
\* the bytes of a padded standard base64 string
Base64Decode(str) ==
    IF str = <<>> THEN <<>>
    ELSE
      LET v(k) == IF str[k] = "=" THEN 0
                  ELSE (CHOOSE i \in 1..64 : BASE64_CHARS[i] = str[k]) - 1
          b1 == v(1) * 4 + (v(2) \div 16)
          b2 == (v(2) % 16) * 16 + (v(3) \div 4)
          b3 == (v(3) % 4) * 64 + v(4)
      IN  (IF str[3] = "=" THEN <<b1>>
           ELSE IF str[4] = "=" THEN <<b1, b2>>
           ELSE <<b1, b2, b3>>) \o Base64Decode(SubSeq(str, 5, Len(str)))

\* the URL-safe mapping reversed: - to +, _ to /, padding restored
FromUrlSafe(str) ==
    ReplaceAll(ReplaceAll(str, "-", <<"+">>), "_", <<"/">>)
      \o [k \in 1..((4 - (Len(str) % 4)) % 4) |-> "="]

\* the ASCII string of a byte sequence
StringOf(bytes) == [k \in 1..Len(bytes) |-> ASCII[bytes[k] - 31]]

\* the query of the authorization URL that is returning
AuthQuery == ParseQuery(QueryOf(ret.value))

(* ----------------------------------------------------------------------- *)
(* C1                                                                      *)
(* ----------------------------------------------------------------------- *)

C1_DefaultScopes ==
    << <<"o","p","e","n","i","d">>, <<"e","m","a","i","l">>,
       <<"p","r","o","f","i","l","e">>,
       <<"g","o","v","b","r","_","c","o","n","f","i","a","b","i","l","i","d",
         "a","d","e","s">> >>

\* C1: the constructor throws if and only if clientId, clientSecret or
\* redirectUri is absent or the empty string; otherwise it succeeds and the
\* resolved configuration keeps the three strings, has the environment given
\* or 'production' when none was given, and the scopes given or
\* ['openid','email','profile','govbr_confiabilidades'] when none was given.
C1_Construction ==
    (svc # "none" /\ mutations = 0) =>
        /\ svc = "failed" <=>
             \E f \in {"clientId", "clientSecret", "redirectUri"} :
                 callerConfig[f] = Undefined \/ callerConfig[f] = <<>>
        /\ svc = "failed" => Len(thrown) = 1 /\ thrown[1].name = "Error"
        /\ svc = "ready" =>
             /\ thrown = <<>>
             /\ config.clientId = callerConfig.clientId
             /\ config.clientSecret = callerConfig.clientSecret
             /\ config.redirectUri = callerConfig.redirectUri
             /\ config.environment =
                  (IF callerConfig.environment = "undefined" THEN "production"
                   ELSE callerConfig.environment)
             /\ heap[config.scopes] =
                  (IF callerConfig.scopes = "undefined" THEN C1_DefaultScopes
                   ELSE heap[callerConfig.scopes])

\* a service constructed from the three required strings alone
C1_Witness ==
    /\ svc = "ready"
    /\ callerConfig.environment = "undefined"
    /\ callerConfig.scopes = "undefined"
    /\ config.environment = "production"

(* ----------------------------------------------------------------------- *)
(* C2                                                                      *)
(* ----------------------------------------------------------------------- *)

\* C2: when generateAuthorizationUrl returns, the caller holds the code
\* verifier from which the code_challenge of the returned URL was derived
\* (so that it can pass it to getTokens), for every call, the call with
\* no parameters included.
C2_CallerHoldsVerifier ==
    ret.op = "generateAuthorizationUrl" =>
        /\ ret.callerVerifier # Undefined
        /\ generateCodeChallenge(ret.callerVerifier)
             = ValueOf(AuthQuery, Str_code_challenge)

(* ----------------------------------------------------------------------- *)
(* C3                                                                      *)
(* ----------------------------------------------------------------------- *)

\* C3: the resolved configuration is fixed at construction: whatever the
\* caller does afterwards to the object it passed in, or to the scopes list
\* it passed in, an authorization URL built later carries the client id,
\* the redirect URI and the scopes the constructor resolved.
C3_FixedAtConstruction ==
    ret.op = "generateAuthorizationUrl" =>
        LET query == AuthQuery IN
        /\ ValueOf(query, Str_client_id) = ClientIdValue
        /\ ValueOf(query, Str_redirect_uri) = RedirectUriValue
        /\ ValueOf(query, Str_scope) = Join(scopesAtConstruction, <<" ">>)

(* ----------------------------------------------------------------------- *)
(* C4                                                                      *)
(* ----------------------------------------------------------------------- *)

C4_Keys ==
    { <<"r","e","s","p","o","n","s","e","_","t","y","p","e">>,
      <<"c","l","i","e","n","t","_","i","d">>,
      <<"s","c","o","p","e">>,
      <<"r","e","d","i","r","e","c","t","_","u","r","i">>,
      <<"n","o","n","c","e">>,
      <<"s","t","a","t","e">>,
      <<"c","o","d","e","_","c","h","a","l","l","e","n","g","e">>,
      <<"c","o","d","e","_","c","h","a","l","l","e","n","g","e","_","m","e","t",
        "h","o","d">> }

\* C4: generateAuthorizationUrl() with no parameters returns the authorize
\* endpoint of the configured environment, a ?, and a query of exactly the
\* eight keys, with response_type = code, code_challenge_method = S256,
\* client_id and redirect_uri as configured, scope = the configured scopes
\* joined by one space in their order, and code_challenge = the URL-safe,
\* unpadded challenge of the verifier generated in that call.
C4_NoParamsUrl ==
    (ret.op = "generateAuthorizationUrl" /\ ret.params = NoParams) =>
        LET query == AuthQuery IN
        /\ ret.value = ENDPOINTS[config.environment].authorize
                         \o <<"?">> \o QueryOf(ret.value)
        /\ Len(query) = 8
        /\ { query[k][1] : k \in 1..8 } = C4_Keys
        /\ ValueOf(query, Str_response_type) = <<"c","o","d","e">>
        /\ ValueOf(query, Str_code_challenge_method) = <<"S","2","5","6">>
        /\ ValueOf(query, Str_client_id) = config.clientId
        /\ ValueOf(query, Str_redirect_uri) = config.redirectUri
        /\ LET scopes == heap[config.scopes]
               scope == ValueOf(query, Str_scope) IN
           /\ Split(scope, " ") = (IF scopes = <<>> THEN << <<>> >> ELSE scopes)
        /\ LET challenge == ValueOf(query, Str_code_challenge) IN
           /\ challenge = generateCodeChallenge(ret.codeVerifier)
           /\ Len(challenge) = 43
           /\ \A k \in 1..Len(challenge) :
                \E j \in 1..64 : BASE64URL_CHARS[j] = challenge[k]

\* the call with no parameters on a service with the default scopes
C4_Witness ==
    /\ ret.op = "generateAuthorizationUrl"
    /\ ret.params = NoParams
    /\ config.scopes = "own"
    /\ Len(heap[config.scopes]) = 4

(* ----------------------------------------------------------------------- *)
(* C5                                                                      *)
(* ----------------------------------------------------------------------- *)

\* the query key of each overridable field
C5_Key ==
    [ responseType |-> Str_response_type, nonce |-> Str_nonce,
      state |-> Str_state, codeChallenge |-> Str_code_challenge,
      codeChallengeMethod |-> Str_code_challenge_method ]

\* the value the call generated, or the default, of each overridable field
C5_Generated ==
    [ responseType |-> <<"c","o","d","e">>, nonce |-> ret.nonce,
      state |-> ret.state,
      codeChallenge |-> generateCodeChallenge(ret.codeVerifier),
      codeChallengeMethod |-> <<"S","2","5","6">> ]

\* C5 as stated: for each of the five overridable fields, the query carries
\* the caller's value when params provides the field and the generated or
\* default value otherwise.
C5_ProvidedIsCarried ==
    ret.op = "generateAuthorizationUrl" =>
        LET query == AuthQuery
            generated == C5_Generated IN
        \A f \in ParamFields :
            ValueOf(query, C5_Key[f]) =
                (IF ret.params[f] # Undefined THEN ret.params[f]
                 ELSE generated[f])

\* C5 amended: for each of the five overridable fields, independently, the
\* query carries the caller's value (form-encoded) when params provides a
\* non-empty value, and the generated or default value when the field is
\* absent or the empty string; a generated nonce or state is 32 hex digits;
\* with state s1 and nonce n1 the query contains nonce=n1&state=s1.
C5_NonEmptyIsCarried ==
    ret.op = "generateAuthorizationUrl" =>
        LET query == AuthQuery
            generated == C5_Generated IN
        /\ \A f \in ParamFields :
            ValueOf(query, C5_Key[f]) =
                (IF ret.params[f] # Undefined /\ ret.params[f] # <<>>
                 THEN ret.params[f]
                 ELSE generated[f])
        /\ \A f \in {"nonce", "state"} :
            (ret.params[f] = Undefined \/ ret.params[f] = <<>>) =>
                /\ Len(generated[f]) = 32
                /\ \A k \in 1..32 : \E j \in 1..16 : HEX_LOWER[j] = generated[f][k]
        /\ (ret.params.state = <<"s","1">> /\ ret.params.nonce = <<"n","1">>) =>
            Contains(QueryOf(ret.value),
                <<"n","o","n","c","e","=","n","1","&","s","t","a","t","e","=","s","1">>)
        /\ ret.params.responseType = ResponseTypeValue =>
            Contains(QueryOf(ret.value),
                <<"r","e","s","p","o","n","s","e","_","t","y","p","e","=",
                  "c","o","d","e","+","i","d","_","t","o","k","e","n">>)

\* generateAuthorizationUrl({state: 's1', nonce: 'n1'})
C5_Witness ==
    /\ ret.op = "generateAuthorizationUrl"
    /\ ret.params = [NoParams EXCEPT !.state = <<"s","1">>, !.nonce = <<"n","1">>]
    /\ ret.codeVerifier # Undefined

(* ----------------------------------------------------------------------- *)
(* C6                                                                      *)
(* ----------------------------------------------------------------------- *)

\* the requests handed to the client for invocation i
RequestsOf(i) == SelectSeq(sent, LAMBDA r : r.call = i)

\* C6: each getTokens(code, codeVerifier) hands the client exactly one
\* request: a POST to the token endpoint of the configured environment,
\* form-encoded, whose body is exactly grant_type=authorization_code, code,
\* redirect_uri (the configured one) and code_verifier, with the header
\* Authorization: Basic v where v, the URL-safe mapping reversed, is the
\* base64 of clientId:clientSecret; a 2xx answer resolves the invocation
\* with the answer's body unchanged.
C6_TokenRequest ==
    \A i \in 1..Len(calls) :
        calls[i].op = "getTokens" =>
            LET c == calls[i]
                reqs == RequestsOf(i)
                r == reqs[1].request
                auth == r.headers.Authorization IN
            /\ Len(reqs) = 1
            /\ r.method = "POST"
            /\ r.url = ENDPOINTS[config.environment].token
            /\ r.headers.ContentType = Str_form
            /\ ParseQuery(r.data) =
                 << << <<"g","r","a","n","t","_","t","y","p","e">>,
                       <<"a","u","t","h","o","r","i","z","a","t","i","o","n","_",
                         "c","o","d","e">> >>,
                    << <<"c","o","d","e">>, c.args[1] >>,
                    << <<"r","e","d","i","r","e","c","t","_","u","r","i">>,
                       config.redirectUri >>,
                    << <<"c","o","d","e","_","v","e","r","i","f","i","e","r">>,
                       c.args[2] >> >>
            /\ SubSeq(auth, 1, 6) = <<"B","a","s","i","c"," ">>
            /\ StringOf(Base64Decode(FromUrlSafe(SubSeq(auth, 7, Len(auth)))))
                 = config.clientId \o <<":">> \o config.clientSecret
            /\ (c.response # <<>> /\ c.response[1].status \in 200..299) =>
                 /\ c.state = "fulfilled"
                 /\ c.result = <<c.response[1].data>>

\* a token exchange the provider answered with 200
C6_Witness ==
    \E i \in 1..Len(calls) :
        /\ calls[i].op = "getTokens"
        /\ calls[i].state = "fulfilled"
        /\ calls[i].response[1].status = 200

(* ----------------------------------------------------------------------- *)
(* C7                                                                      *)
(* ----------------------------------------------------------------------- *)

\* C7: an invocation of any of the four network operations whose exchange
\* ends in a response outside 2xx rejects with a GovBRAuthError of code
\* API_ERROR, statusCode the status of that response and originalError the
\* transport error; one whose transport fails without a response rejects
\* with code API_ERROR and no statusCode.
C7_ApiError ==
    \A i \in 1..Len(calls) :
        LET c == calls[i] IN
        /\ (c.response # <<>> /\ c.response[1].status \notin 200..299) =>
             /\ c.state = "rejected"
             /\ c.result[1].name = "GovBRAuthError"
             /\ c.result[1].code = "API_ERROR"
             /\ c.result[1].statusCode = <<c.response[1].status>>
             /\ c.error[1].name = "AxiosError"
             /\ c.result[1].originalError = c.error[1]
        /\ (c.state = "rejected" /\ c.response = <<>>
              /\ c.error[1].name = "AxiosError") =>
             /\ c.result[1].name = "GovBRAuthError"
             /\ c.result[1].code = "API_ERROR"
             /\ c.result[1].statusCode = <<>>
             /\ c.result[1].originalError = c.error[1]

\* a trust-seal lookup answered with 500 and a userinfo call that timed out
C7_Witness ==
    /\ Len(calls) = 2
    /\ calls[1].op = "getConfiabilidadeSelos"
    /\ calls[1].state = "rejected"
    /\ calls[1].response # <<>>
    /\ calls[1].response[1].status = 500
    /\ calls[2].op = "getUserInfo"
    /\ calls[2].state = "rejected"
    /\ calls[2].error[1].code = "ECONNABORTED"

(* ----------------------------------------------------------------------- *)
(* C8                                                                      *)
(* ----------------------------------------------------------------------- *)

\* C8 as stated: every failure is an error thrown by the constructor or a
\* rejection of a network operation with the normalized API error (code
\* API_ERROR); nothing fails in any other way.
C8_TwoKinds ==
    /\ thrown # <<>> => svc = "failed"
    /\ \A i \in 1..Len(calls) :
        calls[i].state = "rejected" =>
            /\ calls[i].result[1].name = "GovBRAuthError"
            /\ calls[i].result[1].code = "API_ERROR"

\* C8 amended: every failure is one of three kinds: the configuration error
\* thrown by the constructor; a rejection of a network operation with the
\* normalized API error (code API_ERROR) wrapping a transport error; or a
\* rejection of a network operation with an error that is no transport
\* error, passed through as it is.
C8_ThreeKinds ==
    /\ thrown # <<>> => (svc = "failed" /\ thrown[1].name = "Error")
    /\ svc = "ready" => thrown = <<>>
    /\ \A i \in 1..Len(calls) :
        LET c == calls[i] IN
        c.state = "rejected" =>
            \/ /\ c.result[1].name = "GovBRAuthError"
               /\ c.result[1].code = "API_ERROR"
               /\ c.result[1].originalError.name = "AxiosError"
            \/ /\ c.result[1].name # "GovBRAuthError"
               /\ c.error[1].name # "AxiosError"
               /\ c.result = c.error

\* one rejection of each of the two kinds on one service
C8_Witness ==
    /\ Len(calls) = 2
    /\ calls[1].state = "rejected"
    /\ calls[1].result[1].name = "GovBRAuthError"
    /\ calls[2].state = "rejected"
    /\ calls[2].result[1].name = "TypeError"

(* ----------------------------------------------------------------------- *)
(* C9                                                                      *)
(* ----------------------------------------------------------------------- *)

\* C9: an error raised during a network operation that is no AxiosError
\* reaches the caller as the very same error: not wrapped in GovBRAuthError
\* and with no API_ERROR code.
C9_PassThrough ==
    \A i \in 1..Len(calls) :
        LET c == calls[i] IN
        (c.state = "rejected" /\ ~c.error[1].isAxiosError) =>
            /\ c.result = c.error
            /\ c.result[1].name # "GovBRAuthError"
            /\ c.result[1].code # "API_ERROR"

\* a token exchange that ended with an error that is no AxiosError
C9_Witness ==
    \E i \in 1..Len(calls) :
        /\ calls[i].op = "getTokens"
        /\ calls[i].state = "rejected"
        /\ calls[i].error[1].name = "TypeError"

(* ----------------------------------------------------------------------- *)
(* C10                                                                     *)
(* ----------------------------------------------------------------------- *)

\* C10: the service never retries: every invocation of a network operation
\* has handed the client exactly one request, whether it is pending, has
\* resolved or has rejected (after a failure or the timeout included).
C10_NoRetry ==
    /\ Len(sent) = Len(calls)
    /\ \A i \in 1..Len(calls) : Len(RequestsOf(i)) = 1

\* an invocation that rejected on the timeout, followed by another invocation
C10_Witness ==
    /\ Len(calls) = 2
    /\ calls[1].state = "rejected"
    /\ calls[1].error[1].code = "ECONNABORTED"
    /\ calls[2].state = "rejected"
    /\ Len(sent) = 2

(* ----------------------------------------------------------------------- *)
(* C11                                                                     *)
(* ----------------------------------------------------------------------- *)

\* the environment the caller asked for, production when it asked for none
C11_Environment ==
    IF callerConfig.environment = "undefined" THEN "production"
    ELSE callerConfig.environment

\* the URL of a host (sso or api) and a path in the given environment, as
\* the provider publishes it
C11_Url(env, host, path) ==
    <<"h","t","t","p","s",":","/","/">> \o host
      \o (IF env = "staging" THEN <<".","s","t","a","g","i","n","g">> ELSE <<>>)
      \o <<".","a","c","e","s","s","o",".","g","o","v",".","b","r","/">> \o path

C11_Sso == <<"s","s","o">>
C11_Api == <<"a","p","i">>

\* s begins with prefix
C11_StartsWith(s, prefix) ==
    Len(s) >= Len(prefix) /\ SubSeq(s, 1, Len(prefix)) = prefix

\* the URL belongs to the staging table
C11_IsStaging(url) == Contains(url, <<".","s","t","a","g","i","n","g",".">>)

\* C11: the endpoint set of a constructed service is the table of the
\* environment it was constructed for (production when none was given), and
\* every URL any of its operations has used (the authorization or logout URL
\* being returned, and the URL of every request sent so far for the token
\* exchange, userinfo, trust levels and trust seals) is the URL of that
\* table for that operation; staging URLs occur only for a staging service.
C11_OneTable ==
    svc = "ready" =>
        LET env == C11_Environment IN
        /\ endpoints = ENDPOINTS[env]
        /\ ret.op = "generateAuthorizationUrl" =>
             BaseOf(ret.value) = C11_Url(env, C11_Sso, <<"a","u","t","h","o","r","i","z","e">>)
        /\ ret.op = "generateLogoutUrl" =>
             BaseOf(ret.value) = C11_Url(env, C11_Sso, <<"l","o","g","o","u","t">>)
        /\ ret.op # "none" => (C11_IsStaging(ret.value) <=> env = "staging")
        /\ \A k \in 1..Len(sent) :
             LET url == sent[k].request.url
                 op == calls[sent[k].call].op IN
             /\ C11_IsStaging(url) <=> env = "staging"
             /\ op = "getTokens" =>
                  url = C11_Url(env, C11_Sso, <<"t","o","k","e","n">>)
             /\ op = "getUserInfo" =>
                  url = C11_Url(env, C11_Sso, <<"u","s","e","r","i","n","f","o">>)
             /\ op \in {"getConfiabilidadeNiveis", "getConfiabilidadeSelos"} =>
                  C11_StartsWith(url,
                    C11_Url(env, C11_Api, <<"c","o","n","f","i","a","b","i","l","i","d","a","d","e","s","/","v","3","/","c","o","n","t","a","s","/">>))

\* a staging service that has sent a userinfo request and is returning a
\* logout URL
C11_Witness ==
    /\ svc = "ready"
    /\ callerConfig.environment = "staging"
    /\ \E k \in 1..Len(sent) : calls[sent[k].call].op = "getUserInfo"
    /\ ret.op = "generateLogoutUrl"

(* ----------------------------------------------------------------------- *)
(* C12                                                                     *)
(* ----------------------------------------------------------------------- *)

\* the encoded form expected of each argument of generateLogoutUrl
C12_Expected(u) ==
    CASE u = <<"h","t","t","p","s",":","/","/","a","p","p",".","t","e","s","t","/","d","o","n","e">> ->
           <<"h","t","t","p","s","%","3","A","%","2","F","%","2","F","a","p","p",".","t","e","s","t","%","2","F","d","o","n","e">>
      [] u = <<"/","b","y","e"," ","1">> ->
           <<"%","2","F","b","y","e","+","1">>

\* the logout URL being returned is the logout endpoint of the service's
\* environment, ?post_logout_redirect_uri= and the encoded argument, which
\* decodes to the argument; no random value was drawn for it
C12_Url ==
    ret.op = "generateLogoutUrl" =>
        LET prefix == C11_Url(C11_Environment, C11_Sso, <<"l","o","g","o","u","t">>)
                        \o <<"?","p","o","s","t","_","l","o","g","o","u","t","_","r","e","d","i","r","e","c","t","_","u","r","i","=">>
            encoded == SubSeq(ret.value, Len(prefix) + 1, Len(ret.value)) IN
        /\ ret.value = prefix \o C12_Expected(ret.arg)
        /\ FormDecode(encoded) = ret.arg
        /\ ret.codeVerifier = Undefined /\ ret.nonce = Undefined /\ ret.state = Undefined

\* a call of generateLogoutUrl hands no request to the HTTP client and
\* changes nothing of the service
C12_NoRequest ==
    (ret.op = "none" /\ ret'.op = "generateLogoutUrl") =>
        /\ sent' = sent
        /\ calls' = calls
        /\ UNCHANGED serviceVars

\* C12: generateLogoutUrl(u) returns exactly the logout endpoint, then
\* ?post_logout_redirect_uri= and u encoded (for https://app.test/done:
\* post_logout_redirect_uri=https%3A%2F%2Fapp.test%2Fdone); the string is
\* determined by the service's environment and u alone, so two calls with
\* the same argument return the same string; the call sends no HTTP request
\* and draws no random value.
C12_LogoutUrl == [](C12_Url) /\ [][C12_NoRequest]_vars

\* generateLogoutUrl("https://app.test/done") returning on a service that
\* has sent a request before
C12_Witness ==
    /\ ret.op = "generateLogoutUrl"
    /\ ret.arg = <<"h","t","t","p","s",":","/","/","a","p","p",".","t","e","s","t","/","d","o","n","e">>
    /\ QueryOf(ret.value) = <<"p","o","s","t","_","l","o","g","o","u","t","_","r","e","d","i","r","e","c","t","_","u","r","i","=","h","t","t","p","s","%","3","A","%","2","F","%","2","F","a","p","p",".","t","e","s","t","%","2","F","d","o","n","e">>
    /\ Len(sent) > 0

(* ----------------------------------------------------------------------- *)
(* C13                                                                     *)
(* ----------------------------------------------------------------------- *)

\* the URL expected of the request of an invocation
C13_Url(c) ==
    LET base == C11_Url(C11_Environment, C11_Api, <<"c","o","n","f","i","a","b","i","l","i","d","a","d","e","s","/","v","3">>) IN
    CASE c.op = "getUserInfo" ->
           C11_Url(C11_Environment, C11_Sso, <<"u","s","e","r","i","n","f","o">>)
      [] c.op = "getConfiabilidadeNiveis" ->
           base \o <<"/","c","o","n","t","a","s","/">> \o c.args[2] \o <<"/","n","i","v","e","i","s">>
      [] c.op = "getConfiabilidadeSelos" ->
           base \o <<"/","c","o","n","t","a","s","/">> \o c.args[2] \o <<"/","c","o","n","f","i","a","b","i","l","i","d","a","d","e","s">>

\* C13: getUserInfo(t) hands the client one GET to the userinfo endpoint,
\* getConfiabilidadeNiveis(t, cpf) one GET to <trust base>/contas/<cpf>/niveis
\* and getConfiabilidadeSelos(t, cpf) one GET to
\* <trust base>/contas/<cpf>/confiabilidades, the cpf being in the path as
\* the caller gave it; each has the header Authorization: Bearer t with the
\* caller's token unchanged, the two trust requests have the one query
\* parameter response-type=ids and the userinfo request none; a 2xx answer
\* resolves the invocation with the answer's body, its elements in the
\* order received.
C13_BearerRequests ==
    \A i \in 1..Len(calls) :
        calls[i].op \in {"getUserInfo", "getConfiabilidadeNiveis",
                         "getConfiabilidadeSelos"} =>
            LET c == calls[i]
                reqs == RequestsOf(i)
                r == reqs[1].request IN
            /\ Len(reqs) = 1
            /\ r.method = "GET"
            /\ r.url = C13_Url(c)
            /\ r.data = <<>>
            /\ r.headers.Authorization = <<"B","e","a","r","e","r"," ">> \o c.args[1]
            /\ r.params =
                 IF c.op = "getUserInfo" THEN <<>>
                 ELSE << << <<"r","e","s","p","o","n","s","e","-","t","y","p","e">>, <<"i","d","s">> >> >>
            /\ (c.response # <<>> /\ c.response[1].status \in 200..299) =>
                 /\ c.state = "fulfilled"
                 /\ c.result = <<c.response[1].data>>

\* a trust-levels call and a trust-seals call for a cpf that is no CPF
\* number, both answered with 200, the bodies in different orders
C13_Witness ==
    \E i, j \in 1..Len(calls) :
        /\ calls[i].op = "getConfiabilidadeNiveis"
        /\ calls[j].op = "getConfiabilidadeSelos"
        /\ calls[i].args[2] = <<"1","/","x">>
        /\ calls[i].state = "fulfilled" /\ calls[j].state = "fulfilled"
        /\ calls[i].result = << <<"ouro", "prata">> >>
        /\ calls[j].result = << <<"prata", "ouro">> >>

(* ----------------------------------------------------------------------- *)
(* C14                                                                     *)
(* ----------------------------------------------------------------------- *)

\* the configuration and endpoint set of a constructed service are those
\* the constructor resolved from the object it was given
C14_Config ==
    svc = "ready" =>
        /\ config.clientId = callerConfig.clientId
        /\ config.clientSecret = callerConfig.clientSecret
        /\ config.redirectUri = callerConfig.redirectUri
        /\ config.environment = C11_Environment
        /\ heap[config.scopes] = scopesAtConstruction
        /\ endpoints = ENDPOINTS[C11_Environment]

\* the request of an operation with the given arguments on the given
\* configuration and endpoint set
C14_Request(op, args, cfg, eps) ==
    CASE op = "getTokens" -> TokenRequest(cfg, eps, args[1], args[2])
      [] op = "getUserInfo" -> UserInfoRequest(eps, args[1])
      [] op = "getConfiabilidadeNiveis" -> NiveisRequest(eps, args[1], args[2])
      [] op = "getConfiabilidadeSelos" -> SelosRequest(eps, args[1], args[2])

\* every request sent, and the URL being returned, is the one its
\* operation builds from the arguments of its call, the values drawn in that
\* call and the configuration resolved at construction; nothing else of the
\* state enters
C14_Outputs ==
    svc = "ready" =>
        LET cfg == ResolveConfig(callerConfig)
            eps == ENDPOINTS[C11_Environment] IN
        /\ Len(sent) = Len(calls)
        /\ \A k \in 1..Len(sent) :
             /\ sent[k].call = k
             /\ sent[k].request =
                  C14_Request(calls[k].op, calls[k].args, cfg, eps)
        /\ ret.op = "generateAuthorizationUrl" =>
             ret.value = AuthorizationUrl(ret.params, cfg, eps, scopesAtConstruction,
                           ret.nonce, ret.state,
                           generateCodeChallenge(ret.codeVerifier))
        /\ ret.op = "generateLogoutUrl" => ret.value = LogoutUrl(eps, ret.arg)

\* between two calls every operation can be called, whatever was invoked
\* before and however it ended (the network operations as long as the
\* session has invocations left)
C14_AnyOrder ==
    (svc = "ready" /\ ret.op = "none") =>
        /\ Callable
        /\ Len(calls) < MaxSessionCalls =>
             \A op \in {"getTokens", "getUserInfo", "getConfiabilidadeNiveis",
                         "getConfiabilidadeSelos"} : Invocable(op)

\* no step changes the configuration or the endpoint set of a constructed
\* service
C14_Frame ==
    svc = "ready" =>
        /\ svc' = "ready"
        /\ config' = config
        /\ endpoints' = endpoints
        /\ heap'[config'.scopes] = heap[config.scopes]

C15_Own ==
    \A i \in 1..Len(calls) :
        LET c == calls[i]
            reqs == RequestsOf(i) IN
        /\ Len(reqs) = 1
        /\ reqs[1].request =
             C14_Request(c.op, c.args, config, endpoints)
        /\ c.state = "pending" =>
             c.result = <<>> /\ c.response = <<>> /\ c.error = <<>>
        /\ c.state = "fulfilled" =>
             c.result = <<c.response[1].data>> /\ c.error = <<>>
        /\ c.state = "rejected" =>
             /\ c.error[1].call = i
             /\ c.error[1].response = c.response
             /\ IF c.error[1].name = "AxiosError"
                THEN /\ c.result[1].originalError = c.error[1]
                     /\ c.result[1].message = c.error[1].message
                     /\ c.result[1].statusCode =
                          [k \in 1..Len(c.response) |-> c.response[k].status]
                ELSE c.result[1] = c.error[1]

\* a step settles at most one invocation, one that was pending, and changes
\* no other invocation and no request
C15_Isolated ==
    \A i \in 1..Len(calls) :
        calls'[i] # calls[i] =>
            /\ calls[i].state = "pending"
            /\ calls'[i].state # "pending"
            /\ Len(calls') = Len(calls)
            /\ \A j \in (1..Len(calls)) \ {i} : calls'[j] = calls[j]
            /\ sent' = sent

\* C15: with several network operations of one service in flight and their
\* responses arriving in any order, each invocation settles with the body
\* or the normalized error of its own request; the settling of one
\* invocation, a failure included, changes no other invocation.
C15_OwnOutcome == [](C15_Own) /\ [][C15_Isolated]_vars

\* the second of two invocations was rejected with status 401 while the
\* first is still in flight
C15_Witness ==
    /\ Len(calls) = 2
    /\ calls[1].state = "pending"
    /\ calls[2].state = "rejected"
    /\ calls[2].result[1].statusCode = <<401>>

(* ----------------------------------------------------------------------- *)
(* C16                                                                     *)
(* ----------------------------------------------------------------------- *)

\* the k-th invocation has been made and is no longer pending
C16_Settled(k) == Len(calls) >= k /\ calls[k].state # "pending"

\* an invocation is in exactly one of the three states, resolved with a
\* result and no error, or rejected with an error
C16_OneOutcome ==
    \A i \in 1..Len(calls) :
        LET c == calls[i] IN
        /\ c.state \in {"pending", "fulfilled", "rejected"}
        /\ c.state = "pending" => (c.result = <<>> /\ c.error = <<>>)
        /\ c.state = "fulfilled" => (Len(c.result) = 1 /\ c.error = <<>>)
        /\ c.state = "rejected" => (Len(c.result) = 1 /\ Len(c.error) = 1)

\* a settled invocation never changes again
C16_Once ==
    \A i \in 1..Len(calls) :
        calls[i].state # "pending" => calls'[i] = calls[i]

\* C16: with a client that ends every request (response, transport failure
\* or timeout), every invocation of a network operation eventually settles;
\* it either resolves with a result or rejects with an error, never both,
\* and once settled it stays as it settled.
C16_SettlesOnce ==
    /\ \A k \in 1..MaxCalls : (Len(calls) >= k) ~> C16_Settled(k)
    /\ [](C16_OneOutcome)
    /\ [][C16_Once]_vars

\* two invocations, one resolved and one rejected on the timeout
C16_Witness ==
    /\ Len(calls) = 2
    /\ calls[1].state = "fulfilled"
    /\ calls[2].state = "rejected"
    /\ calls[2].error[1].code = "ECONNABORTED"

(* ----------------------------------------------------------------------- *)
(* C17                                                                     *)
(* ----------------------------------------------------------------------- *)

\* the five query keys an AuthorizeParams field can override
C17_Keys ==
    { <<"r","e","s","p","o","n","s","e","_","t","y","p","e">>,
      <<"n","o","n","c","e">>,
      <<"s","t","a","t","e">>,
      <<"c","o","d","e","_","c","h","a","l","l","e","n","g","e">>,
      <<"c","o","d","e","_","c","h","a","l","l","e","n","g","e","_","m","e","t","h","o","d">> }

\* C17: an override given as the empty string counts as not given: the
\* query then has code for response_type, S256 for code_challenge_method,
\* and for nonce, state and code_challenge the value generated in that call;
\* whatever the params, none of the five keys has an empty value in the
\* query of an authorization URL.
C17_EmptyIsAbsent ==
    ret.op = "generateAuthorizationUrl" =>
        LET query == AuthQuery
            p == ret.params IN
        /\ p.responseType = <<>> =>
             ValueOf(query, <<"r","e","s","p","o","n","s","e","_","t","y","p","e">>) = <<"c","o","d","e">>
        /\ p.codeChallengeMethod = <<>> =>
             ValueOf(query, <<"c","o","d","e","_","c","h","a","l","l","e","n","g","e","_","m","e","t","h","o","d">>) = <<"S","2","5","6">>
        /\ p.nonce = <<>> =>
             (ret.nonce \in generateNonce
                /\ ValueOf(query, <<"n","o","n","c","e">>) = ret.nonce)
        /\ p.state = <<>> =>
             (ret.state \in generateState
                /\ ValueOf(query, <<"s","t","a","t","e">>) = ret.state)
        /\ p.codeChallenge = <<>> =>
             ValueOf(query, <<"c","o","d","e","_","c","h","a","l","l","e","n","g","e">>) =
               generateCodeChallenge(ret.codeVerifier)
        /\ \A k \in 1..Len(query) :
             query[k][1] \in C17_Keys => query[k][2] # <<>>

\* generateAuthorizationUrl called with every overridable field set to ''
C17_Witness ==
    /\ ret.op = "generateAuthorizationUrl"
    /\ \A f \in ParamFields : ret.params[f] = <<>>

(* ----------------------------------------------------------------------- *)
(* C18                                                                     *)
(* ----------------------------------------------------------------------- *)

\* the client id and redirect URI the authorization URL being returned
\* presents
C18_UrlIdentity ==
    LET query == AuthQuery IN
    << ValueOf(query, <<"c","l","i","e","n","t","_","i","d">>),
       ValueOf(query, <<"r","e","d","i","r","e","c","t","_","u","r","i">>) >>

\* the client id and redirect URI a token request presents: the part of
\* its Basic credential before the colon, and the redirect_uri of its body
C18_TokenIdentity(r) ==
    LET auth == r.headers.Authorization
        credential == StringOf(Base64Decode(FromUrlSafe(SubSeq(auth, 7, Len(auth)))))
    IN << SubSeq(credential, 1, IndexOf(credential, ":") - 1),
          ValueOf(ParseQuery(r.data), <<"r","e","d","i","r","e","c","t","_","u","r","i">>) >>

\* the requests sent for token exchanges
C18_TokenRequests ==
    { k \in 1..Len(sent) : calls[sent[k].call].op = "getTokens" }

\* C18: over any sequence of operations on one service, every token request
\* sent and every authorization URL returned present the same client id and
\* the same redirect URI, those the service was constructed with.
C18_SameIdentity ==
    svc = "ready" =>
        LET identity == << callerConfig.clientId, callerConfig.redirectUri >> IN
        /\ \A k \in C18_TokenRequests :
             C18_TokenIdentity(sent[k].request) = identity
        /\ ret.op = "generateAuthorizationUrl" =>
             /\ C18_UrlIdentity = identity
             /\ \A k \in C18_TokenRequests :
                  C18_TokenIdentity(sent[k].request) = C18_UrlIdentity

\* an authorization URL returning on a service that has sent a token request
C18_Witness ==
    /\ ret.op = "generateAuthorizationUrl"
    /\ C18_TokenRequests # {}

(* ----------------------------------------------------------------------- *)
(* C19                                                                     *)
(* ----------------------------------------------------------------------- *)

\* the text s shows the client secret: as it is, form-encoded, or inside
\* the encoded credential of the token request
C19_Shows(s) ==
    LET secret == callerConfig.clientSecret IN
    \/ Contains(s, secret)
    \/ Contains(s, FormEncode(secret))
    \/ Contains(s, base64URLEncode(callerConfig.clientId \o <<":">> \o secret))

\* the configuration of a service that differs in the client secret only
C19_OtherSecret ==
    [ ResolveConfig(callerConfig) EXCEPT !.clientSecret = <<"q","=","1">> ]

\* every text of a request but its Authorization header
C19_Texts(r) ==
    {r.url, r.data, r.headers.ContentType}
      \cup {r.params[k][1] : k \in 1..Len(r.params)}
      \cup {r.params[k][2] : k \in 1..Len(r.params)}

\* C19: the client secret is confined to the token request: it is in the
\* Authorization header of the POST of getTokens and nowhere else in that
\* request, in no authorization or logout URL, in no userinfo or trust
\* request, and in no code, statusCode or message of a normalized error;
\* the URLs and the userinfo and trust requests are those of a service with
\* another client secret, given the same arguments and random values.
C19_SecretConfined ==
    svc = "ready" =>
        LET other == C19_OtherSecret IN
        /\ ret.op # "none" => ~C19_Shows(ret.value)
        /\ ret.op = "generateAuthorizationUrl" =>
             ret.value = AuthorizationUrl(ret.params, other, endpoints,
                           heap[config.scopes], ret.nonce, ret.state,
                           generateCodeChallenge(ret.codeVerifier))
        /\ \A k \in 1..Len(sent) :
             LET r == sent[k].request
                 c == calls[sent[k].call] IN
             /\ \A s \in C19_Texts(r) : ~C19_Shows(s)
             /\ IF c.op = "getTokens"
                THEN /\ C19_Shows(r.headers.Authorization)
                     /\ r.data = TokenRequest(other, endpoints,
                                               c.args[1], c.args[2]).data
                ELSE /\ ~C19_Shows(r.headers.Authorization)
                     /\ r = C14_Request(c.op, c.args, other, endpoints)
        /\ \A i \in 1..Len(calls) :
             (calls[i].state = "rejected"
                /\ calls[i].result[1].name = "GovBRAuthError") =>
                 LET e == calls[i].result[1] IN
                 /\ e.code = "API_ERROR"
                 /\ e.statusCode \in {<<>>, <<401>>, <<500>>}
                 /\ e.message \in
                      { BadResponseError(i, [status |-> s, data |-> <<>>]).message :
                          s \in StatusInputs }
                      \cup { NoResponseError(i, code).message :
                               code \in NoResponseCodes }

\* an authorization URL returning on a service whose token exchange was
\* rejected with a normalized error
C19_Witness ==
    /\ ret.op = "generateAuthorizationUrl"
    /\ \E i \in 1..Len(calls) :
         /\ calls[i].op = "getTokens"
         /\ calls[i].state = "rejected"
         /\ calls[i].result[1].code = "API_ERROR"

====
